---- MODULE Spec2Model ----
(***************************************************************************)
(* Buffered multipart parsing of @aegisx/fastify-multipart (index.js of    *)
(* the package, 355 lines): request.parseMultipart(), the temp-file write  *)
(* streams it opens, the request-scoped result and the onResponse cleanup  *)
(* hook.  One request is modelled.  The tokenizer (busboy ^1.6.0) is the   *)
(* environment: it walks the parts of the body and emits the events the    *)
(* plugin's handlers are registered for.  The route handler is the other   *)
(* part of the environment: it calls request.file(), request.files(),      *)
(* toBuffer() of a descriptor, request.cleanupTempFiles() and, a second    *)
(* time, request.parseMultipart().                                         *)
(***************************************************************************)
EXTENDS Integers, Sequences, FiniteSets, TLC

\* ------------------------------------------------------------------ bounds
MaxParts    == 3      \* parts in one request body
LimFileSize == 3      \* config.limits.fileSize of this registration
LimFiles    == 2      \* config.limits.files
LimFields   == 2      \* config.limits.fields
MaxConcParts == 2     \* parts in the body of the longer of two concurrent requests
MaxClock    == 1      \* milliseconds Date.now() advances while they are served

\* ------------------------------------------------------------- input sets
MP   == "multipart/form-data"
JSON == "application/json"
Absent == <<>>
\* A content-type header is the sequence of its ';'-separated tokens, the
\* media type first; Absent is a request without the header.
ContentTypes == { Absent, <<JSON>>, <<MP>>, <<JSON, MP>> }

\* "constructor" is a property every object literal inherits.
FieldNames     == { "name", "constructor" }
InheritedNames == { "constructor" }
FieldValues    == { "", "x" }
\* below, at and above limits.fileSize
FileSizes      == (LimFileSize - 1) .. (LimFileSize + 1)

\* A file part carries the filename and the content type it was submitted
\* with, which the tokenizer reports as info.filename and info.mimeType.
FieldPart(n, v) == [type |-> "field", name |-> n, value |-> v, size |-> 0,
                    filename |-> "", mimeType |-> ""]
FilePart(s)     == [type |-> "file", name |-> "file", value |-> "", size |-> s,
                    filename |-> "test.txt", mimeType |-> "text/plain"]
Parts == { FieldPart(n, v) : n \in FieldNames \ InheritedNames, v \in FieldValues }
           \cup { FieldPart(n, "x") : n \in InheritedNames }
           \cup { FilePart(s) : s \in FileSizes }
Bodies == UNION { [1 .. n -> Parts] : n \in 0 .. MaxParts }

\* The limits a registration is given: limits.fields is the smallest limit
\* or the largest one of the bound, the two others are fixed.
Limits == { [fileSize |-> LimFileSize, files |-> LimFiles, fields |-> f] :
              f \in {1, LimFields} }

\* The i-th byte of the file in part p of the body.
Byte(p, i)     == <<p, i>>

\* ------------------------------------------------------------ error kinds
FileSizeLimit               == "FST_MULTIPART_FILE_SIZE_LIMIT"
FilesLimit                  == "FST_MULTIPART_FILES_LIMIT"
FieldsLimit                 == "FST_MULTIPART_FIELDS_LIMIT"
InvalidMultipartContentType == "FST_MULTIPART_INVALID_CONTENT_TYPE"
UnsupportedContentType      == "Unsupported content type"
MalformedBody               == "Malformed part header"
WriteIOError                == "EIO"

\* null / undefined against a value: None, or Some(x)
None    == << >>
Some(x) == << x >>
NoError == ""

VARIABLES
  header,        \* request.headers['content-type']
  body,          \* the parts of the request body, in order
  limits,        \* config.limits of the registration
  bb,            \* the tokenizer created by busboy({headers, limits})
  promise,       \* the promise parseMultipart returned
  files,         \* const files = []
  fields,        \* const fields = {}
  tempFiles,     \* const tempFiles = []
  pendingFiles,  \* let pendingFiles = 0
  finished,      \* let finished = false
  ws,            \* the write streams opened, in the order of their file events
  disk,          \* temp directory: path -> Some(content), or None
  kMultipart,    \* request[kMultipart]
  kTempFiles,    \* request[kTempFiles]
  iter,          \* the async generator request.parts() returned
  phase,         \* the request: "idle", "handler", "responded", "cleaned"
  call,          \* the accessor or cleanup call just made, and its outcome
  manual,        \* a manual cleanupTempFiles call has reached its unlinks
  again,         \* the promise a second parseMultipart() call returned
  gen,           \* the locals of the generator: bb, parts, finished, error,
                 \* the PassThrough streams, and what the consumer received
  conc           \* two requests served by one process: the clock, and per
                 \* request the locals of its parseMultipart call

vars == << header, body, limits, conc, bb, promise, files, fields, tempFiles, pendingFiles,
           finished, ws, disk, kMultipart, kTempFiles, iter, phase, call, manual,
           again, gen >>

Paths == 1 .. MaxParts + 1
\* a file of the temp directory that is not the request's and that the
\* process may not remove (unlink fails with EPERM)
Protected == 0
AllPaths  == Paths \cup { Protected }

\* ---------------------------------------------------------------- helpers
Includes(h, tok) == \E i \in 1 .. Len(h) : h[i] = tok
Declares(h, tok) == Len(h) > 0 /\ h[1] = tok

\* JS values held by the fields object
Undef    == [k |-> "undefined", v |-> "", items |-> << >>]
Str(s)   == [k |-> "string", v |-> s, items |-> << >>]
Arr(q)   == [k |-> "array", v |-> "", items |-> q]
ProtoFn  == [k |-> "function", v |-> "", items |-> << >>]

Truthy(x) == CASE x.k = "undefined" -> FALSE
               [] x.k = "string"    -> x.v # ""
               [] OTHER             -> TRUE

\* fields[fieldname]: the own property, else what the prototype provides
Get(obj, n) == IF obj[n] # Undef THEN obj[n]
               ELSE IF n \in InheritedNames THEN ProtoFn ELSE Undef

\* no accessor or cleanup call was just made
NoCall == [op |-> "none", threw |-> FALSE, error |-> NoError, value |-> << >>,
           list |-> None]

NoPromise == [state |-> "none", error |-> NoError, result |-> None]

NoBusboy == [state |-> "none", pos |-> 1, files |-> 0, fields |-> 0,
             hitFiles |-> FALSE, hitFields |-> FALSE,
             cur |-> 0, sent |-> 0, skip |-> FALSE]

\* A PassThrough before it is created: state is "none", then "open", "ended"
\* or "destroyed"; buffer is what was written and not read yet; fileSize is
\* the counter of the 'data' handler.
NoStream == [state |-> "none", buffer |-> << >>, fileSize |-> 0]

\* What the consumer has got from the stream of the part it holds: the bytes
\* it read, the "end" or "error" it saw, and the state the stream was in
\* when it read for the first time
NoChunks == [read |-> << >>, seen |-> "", firstRead |-> ""]

\* The generator before its first step.  emitted lists the parts the
\* tokenizer emitted a 'file' or 'field' event for, yielded the part objects
\* the consumer received, errEmitted the number of parts emitted, and
\* errBuffered the number of parts in the queue, when error was first set.
NoGen == [bb |-> NoBusboy, parts |-> << >>, finished |-> FALSE, error |-> NoError,
          streams |-> << >>, emitted |-> << >>, yielded |-> << >>, errEmitted |-> 0,
          errBuffered |-> 0, chunks |-> NoChunks]

\* The requests one process serves at the same time
Requests == { 1, 2 }

\* What one request holds before its parseMultipart call: the locals of the
\* executor (files, fields, tempFiles, finished), the tokenizer's position in
\* its body, its write streams, its promise and its two decorations.
NoRequest == [state |-> "none", body |-> << >>, pos |-> 1,
              fields |-> [n \in FieldNames |-> Undef], files |-> << >>,
              tempFiles |-> << >>, finished |-> FALSE, ws |-> << >>,
              promise |-> NoPromise, kMultipart |-> None, kTempFiles |-> None]

\* The process before any request arrived: the clock Date.now() reads, the
\* cells holding the pendingFiles counters, and the requests
NoConc == [clock |-> 0, pendingFiles |-> [c \in Requests |-> 0],
           reqs |-> [r \in Requests |-> NoRequest]]

Init ==
  /\ header \in ContentTypes
  /\ body \in Bodies
  /\ (header # <<MP>> => body = <<>>)
  /\ limits \in Limits
  /\ (header # <<MP>> => limits.fields = LimFields)
  /\ bb = NoBusboy
  /\ promise = NoPromise
  /\ files = <<>>
  /\ fields = [n \in FieldNames |-> Undef]
  /\ tempFiles = <<>>
  /\ pendingFiles = 0
  /\ finished = FALSE
  /\ ws = <<>>
  /\ disk = [p \in AllPaths |-> IF p = Protected THEN Some(<< >>) ELSE None]
  /\ kMultipart = None
  /\ kTempFiles = None
  /\ iter = [state |-> "none", error |-> NoError]
  /\ phase = "idle"
  /\ call = NoCall
  /\ manual = FALSE
  /\ again = NoPromise
  /\ gen = NoGen
  /\ conc = NoConc

Pending == [state |-> "pending", error |-> NoError, result |-> None]

\* new Promise: the first resolve or reject settles it, later ones are no-ops
Reject(p, err)  == IF p.state = "pending"
                     THEN [state |-> "rejected", error |-> err, result |-> None] ELSE p
Resolve(p, res) == IF p.state = "pending"
                     THEN [state |-> "resolved", error |-> NoError, result |-> Some(res)]
                     ELSE p


\* `upload_${Date.now()}_${random}`: a path no earlier file of the request got
AllocPath(used) == CHOOSE p \in Paths : p \notin used /\ \A q \in Paths \ used : p <= q

UsedPaths == { tempFiles[i] : i \in 1 .. Len(tempFiles) }

\* headers['content-type']?.includes('multipart/form-data')
IsMultipart(h) == Includes(h, MP)

\* busboy(...) finds a parser for the media type, else it throws
BusboyAccepts(h) == Declares(h, MP)

\* ------------------------------------------------- request.parseMultipart()
\* The executor of the promise: the content-type test, busboy(...) (which
\* throws on a media type it has no parser for; a throw inside the executor
\* rejects the promise), the handler registrations and request.raw.pipe(bb).
ParseMultipart ==
  /\ phase = "idle"
  /\ phase' = "handler"
  /\ IF ~IsMultipart(header)
       THEN /\ promise' = Reject(Pending, InvalidMultipartContentType)
            /\ bb' = bb
       ELSE IF ~BusboyAccepts(header)
         THEN /\ promise' = Reject(Pending, UnsupportedContentType)
              /\ bb' = bb
         ELSE /\ promise' = Pending
              /\ bb' = [bb EXCEPT !.state = "running"]
  /\ call' = NoCall
  /\ UNCHANGED << header, body, limits, conc, manual, again, files, fields, tempFiles, pendingFiles, finished,
                  ws, disk, kMultipart, kTempFiles, iter, gen >>

\* bb.on('field', (fieldname, value) => ...)
OnField(obj, n, v) ==
  IF Truthy(Get(obj, n))
    THEN LET cur == Get(obj, n)
             arr == IF cur.k = "array" THEN cur.items ELSE << cur >>
         IN  [obj EXCEPT ![n] = Arr(Append(arr, Str(v)))]
    ELSE [obj EXCEPT ![n] = Str(v)]

\* const result = { files, fields, _tempFiles: tempFiles }
Result(fs, fl, tf) == [files |-> fs, fields |-> fl, _tempFiles |-> tf]

\* the 'fieldsLimit' handler left out: the event is ignored
OnFieldsLimit_Ignored(p) == p

\* bb.on('fieldsLimit', () => { reject(new FieldsLimit()) })
OnFieldsLimit(p) == Reject(p, FieldsLimit)

\* the 'filesLimit' handler left out: the event is ignored
OnFilesLimit_Ignored(p) == p

\* bb.on('filesLimit', () => { reject(new FilesLimit()) })
OnFilesLimit(p) == Reject(p, FilesLimit)

\* file.on('limit', ...): writeStream.destroy()
OnLimitDestroy(st) == IF st \in {"open", "ending"} THEN "destroyed" ELSE st

\* the 'limit' handler destroys the write stream but forgets to reject
OnLimitReject_Forgotten(p) == p

\* file.on('limit', ...): reject(new FileSizeLimit(...))
OnLimitReject(p) == Reject(p, FileSizeLimit)

\* The tokenizer reaches a field part: it counts it against limits.fields and
\* emits 'fieldsLimit' (once) instead of 'field' when the count is used up.
TokField ==
  /\ bb.state = "running" /\ bb.cur = 0
  /\ bb.pos <= Len(body) /\ body[bb.pos].type = "field"
  /\ IF bb.fields = limits.fields
       THEN /\ bb' = [bb EXCEPT !.pos = @ + 1, !.hitFields = TRUE]
            /\ promise' = IF bb.hitFields THEN promise ELSE OnFieldsLimit(promise)
            /\ fields' = fields
       ELSE /\ bb' = [bb EXCEPT !.pos = @ + 1, !.fields = @ + 1]
            /\ fields' = OnField(fields, body[bb.pos].name, body[bb.pos].value)
            /\ promise' = promise
  /\ call' = NoCall
  /\ UNCHANGED << header, body, limits, conc, manual, again, files, tempFiles, pendingFiles, finished, ws, disk,
                  kMultipart, kTempFiles, iter, gen, phase >>

\* the file event does not count the file
FileStarted_NotCounted(pending) == pending

\* pendingFiles++                                -- first line of bb.on('file')
FileStarted(pending) == pending + 1

\* the path of the new temp file is not recorded
TrackTempFile_Forgotten(list, path) == list

\* tempFiles.push(tempFilePath)
TrackTempFile(list, path) == Append(list, path)

\* The tokenizer reaches a file part: 'filesLimit' (once) when limits.files
\* files were already emitted, else 'file' and the handler of lines 66-136 up
\* to file.pipe(writeStream).  createWriteStream creates the (empty) file.
TokFileStart ==
  /\ bb.state = "running" /\ bb.cur = 0
  /\ bb.pos <= Len(body) /\ body[bb.pos].type = "file"
  /\ IF bb.files = limits.files
       THEN /\ bb' = [bb EXCEPT !.pos = @ + 1, !.hitFiles = TRUE]
            /\ promise' = IF bb.hitFiles THEN promise ELSE OnFilesLimit(promise)
            /\ UNCHANGED << pendingFiles, tempFiles, ws, disk >>
       ELSE LET tempFilePath == AllocPath(UsedPaths) IN
            /\ pendingFiles' = FileStarted(pendingFiles)
            /\ ws' = Append(ws, [path |-> tempFilePath, part |-> bb.pos, state |-> "open"])
            /\ tempFiles' = TrackTempFile(tempFiles, tempFilePath)
            /\ disk' = [disk EXCEPT ![tempFilePath] = Some(<< >>)]
            /\ bb' = [bb EXCEPT !.files = @ + 1, !.cur = Len(ws) + 1,
                                !.sent = 0, !.skip = FALSE]
            /\ promise' = promise
  /\ call' = NoCall
  /\ UNCHANGED << header, body, limits, conc, manual, again, files, fields, finished, kMultipart, kTempFiles, iter, gen, phase >>

\* busboy 1.x counts the bytes it hands to a file stream and emits 'limit' on
\* the stream when the count reaches limits.fileSize; the rest of the part is
\* skipped.
TokenizerLimit(count) == count = limits.fileSize

\* The data of file part p as the tokenizer hands it to the file stream: the
\* bytes of the part in order, cut at limits.fileSize
Chunk(p) ==
  LET n == IF body[p].size < limits.fileSize THEN body[p].size ELSE limits.fileSize
  IN  [i \in 1 .. n |-> Byte(p, i)]

\* the write loses the last byte of the chunk
Write_LastByteLost(content, chunk) == content \o SubSeq(chunk, 1, Len(chunk) - 1)

\* file.pipe(writeStream): the chunk is appended to the temp file
Write(content, chunk) == content \o chunk

\* The data of the current file part: pushed to the file stream, piped into
\* the write stream, then 'limit' if the tokenizer's count says so
\* (file.on('limit'): writeStream.destroy(); reject(new FileSizeLimit(...))).
TokFileData ==
  /\ bb.state = "running" /\ bb.cur # 0 /\ ~bb.skip
  /\ bb.sent < body[bb.pos].size
  /\ LET w == ws[bb.cur]
         chunk == Chunk(bb.pos)
         n == bb.sent + Len(chunk)
         written == w.state = "open" /\ disk[w.path] # None
     IN  /\ disk' = IF written
                      THEN [disk EXCEPT ![w.path] = Some(Write(@[1], chunk))]
                      ELSE disk
         /\ IF TokenizerLimit(n)
              THEN /\ bb' = [bb EXCEPT !.sent = n, !.skip = TRUE]
                   /\ ws' = [ws EXCEPT ![bb.cur].state = OnLimitDestroy(@)]
                   /\ promise' = OnLimitReject(promise)
              ELSE /\ bb' = [bb EXCEPT !.sent = n]
                   /\ UNCHANGED << ws, promise >>
  /\ call' = NoCall
  /\ UNCHANGED << header, body, limits, conc, manual, again, files, fields, tempFiles, pendingFiles, finished,
                  kMultipart, kTempFiles, iter, gen, phase >>

\* End of the current file part: the file stream ends and the pipe calls
\* writeStream.end(); a destroyed or errored write stream stays as it is.
TokFileEnd ==
  /\ bb.state = "running" /\ bb.cur # 0
  /\ (bb.skip \/ bb.sent = body[bb.pos].size)
  /\ ws' = IF ws[bb.cur].state = "open"
             THEN [ws EXCEPT ![bb.cur].state = "ending"] ELSE ws
  /\ bb' = [bb EXCEPT !.pos = @ + 1, !.cur = 0, !.sent = 0, !.skip = FALSE]
  /\ call' = NoCall
  /\ UNCHANGED << header, body, limits, conc, manual, again, promise, files, fields, tempFiles, pendingFiles,
                  finished, disk, kMultipart, kTempFiles, iter, gen, phase >>

\* const filename = info.filename || 'unnamed'
Filename(info) == IF info.filename = "" THEN "unnamed" ELSE info.filename

\* const mimetype = info.mimeType || 'application/octet-stream'
Mimetype(info) == IF info.mimeType = "" THEN "application/octet-stream" ELSE info.mimeType

\* The descriptor built in writeStream.on('finish'); part tells which part of
\* the body the descriptor was built for.
FileObj(w) == [fieldname |-> body[w.part].name, part |-> w.part,
               filename |-> Filename(body[w.part]), mimetype |-> Mimetype(body[w.part]),
               _tempPath |-> w.path]

\* the test without the counter: if (finished)
AllWritten_NoCounter(pending, fin) == fin

\* if (pendingFiles === 0 && finished)        -- in writeStream.on('finish')
AllWritten(pending, fin) == pending = 0 /\ fin

\* bb.on('finish') without its test: the result is built at once
NoPending_Always(pending) == TRUE

\* if (pendingFiles === 0)                    -- in bb.on('finish')
NoPending(pending) == pending = 0

\* writeStream.on('finish', ...): the temp file of write stream i is flushed
WsFinish(i) ==
  /\ ws[i].state = "ending"
  /\ ws' = [ws EXCEPT ![i].state = "finished"]
  /\ files' = Append(files, FileObj(ws[i]))
  /\ pendingFiles' = pendingFiles - 1
  /\ IF AllWritten(pendingFiles', finished)
       THEN LET result == Result(files', fields, tempFiles) IN
            /\ kMultipart' = Some(result)
            /\ kTempFiles' = Some(tempFiles)
            /\ promise' = Resolve(promise, result)
       ELSE UNCHANGED << kMultipart, kTempFiles, promise >>
  /\ call' = NoCall
  /\ UNCHANGED << header, body, limits, conc, manual, again, bb, fields, tempFiles, finished, disk, iter, gen, phase >>

\* the write stream has no 'error' listener that settles the promise
OnWriteError_Swallowed(p, err) == p

\* writeStream.on('error', reject)
OnWriteError(p, err) == Reject(p, err)

\* An I/O error of write stream i
WsError(i) ==
  /\ ws[i].state \in {"open", "ending"}
  /\ ws' = [ws EXCEPT ![i].state = "errored"]
  /\ promise' = OnWriteError(promise, WriteIOError)
  /\ call' = NoCall
  /\ UNCHANGED << header, body, limits, conc, manual, again, bb, files, fields, tempFiles, pendingFiles, finished,
                  disk, kMultipart, kTempFiles, iter, gen, phase >>

\* bb.on('finish', ...): the tokenizer has consumed the whole body
TokFinish ==
  /\ bb.state = "running" /\ bb.cur = 0 /\ bb.pos > Len(body)
  /\ bb' = [bb EXCEPT !.state = "finished"]
  /\ finished' = TRUE
  /\ IF NoPending(pendingFiles)
       THEN LET result == Result(files, fields, tempFiles) IN
            /\ kMultipart' = Some(result)
            /\ kTempFiles' = Some(tempFiles)
            /\ promise' = Resolve(promise, result)
       ELSE UNCHANGED << kMultipart, kTempFiles, promise >>
  /\ call' = NoCall
  /\ UNCHANGED << header, body, limits, conc, manual, again, files, fields, tempFiles, pendingFiles, ws, disk, iter, gen, phase >>

\* The messages of the errors busboy emits on a malformed body
UnexpectedEnd == "Unexpected end of form"
ErrorMessages == { MalformedBody, UnexpectedEnd }
IncludesSizeMessage(msg) == msg = "File size limit exceeded"

\* bb.on('error', (err) => { if (err.message && err.message.includes('File
\* size limit exceeded')) reject(new FileSizeLimit(...)) else reject(err) })
OnBusboyError(p, msg) == IF IncludesSizeMessage(msg)
                           THEN Reject(p, FileSizeLimit)
                           ELSE Reject(p, msg)

\* The tokenizer emits 'error': the body is malformed or ends early
TokError ==
  /\ bb.state = "running"
  /\ \E msg \in ErrorMessages : promise' = OnBusboyError(promise, msg)
  /\ bb' = [bb EXCEPT !.state = "errored"]
  /\ call' = NoCall
  /\ UNCHANGED << header, body, limits, conc, manual, again, files, fields, tempFiles, pendingFiles, finished,
                  ws, disk, kMultipart, kTempFiles, iter, gen, phase >>

\* ------------------------------------ request.parseMultipart(), called again

\* A second call after the first has resolved.  The function has no test of
\* request[kMultipart]: the executor runs again, the content-type test and
\* busboy(...) pass as they did, new locals and a new tokenizer are created
\* and request.raw, already read to its end, is piped into the new tokenizer.
ParseMultipartAgain ==
  /\ phase = "handler" /\ promise.state = "resolved"
  /\ again.state = "none"
  /\ again' = IF ~IsMultipart(header)
                THEN Reject(Pending, InvalidMultipartContentType)
              ELSE IF ~BusboyAccepts(header)
                THEN Reject(Pending, UnsupportedContentType)
              ELSE Pending
  /\ call' = NoCall
  /\ UNCHANGED << header, body, limits, conc, bb, promise, files, fields, tempFiles,
                  pendingFiles, finished, ws, disk, kMultipart, kTempFiles, iter, gen,
                  phase, manual >>

\* The pipe ends the new tokenizer without having written a byte to it: it
\* emits 'error' (the form has no closing boundary), and bb.on('error') of
\* the second call rejects the second promise with that error.
AgainEnd ==
  /\ again.state = "pending"
  /\ again' = OnBusboyError(again, UnexpectedEnd)
  /\ call' = NoCall
  /\ UNCHANGED << header, body, limits, conc, bb, promise, files, fields, tempFiles,
                  pendingFiles, finished, ws, disk, kMultipart, kTempFiles, iter, gen,
                  phase, manual >>

\* ---------------------------------------- request.file() / request.files()
NotParsed == "Multipart data not parsed. Call parseMultipart() first."

Returned(op, v) == [op |-> op, threw |-> FALSE, error |-> NoError, value |-> v,
                    list |-> None]
Threw(op, err)  == [op |-> op, threw |-> TRUE, error |-> err, value |-> << >>,
                    list |-> None]

\* if (this[kMultipart]) return this[kMultipart].files[0] || null; throw ...
\* The value is << >> for null and << descriptor >> otherwise.
File(km) == IF km # None
              THEN Returned("file", IF Len(km[1].files) > 0
                                      THEN << km[1].files[1] >> ELSE << >>)
              ELSE Threw("file", NotParsed)

\* if (this[kMultipart]) return this[kMultipart].files; throw ...
Files(km) == IF km # None THEN Returned("files", km[1].files)
                          ELSE Threw("files", NotParsed)

\* The route handler is running and is not waiting for parseMultipart():
\* it has not called it yet, or it awaited a promise that is now settled
HandlerRuns ==
  \/ phase = "idle"
  \/ phase = "handler" /\ promise.state \in {"resolved", "rejected"}

\* The route handler calls request.file()
RequestFile ==
  /\ HandlerRuns
  /\ call' = File(kMultipart)
  /\ UNCHANGED << header, body, limits, conc, bb, promise, files, fields, tempFiles,
                  pendingFiles, finished, ws, disk, kMultipart, kTempFiles, iter, gen,
                  phase, manual, again >>

\* The route handler calls request.files()
RequestFiles ==
  /\ HandlerRuns
  /\ call' = Files(kMultipart)
  /\ UNCHANGED << header, body, limits, conc, bb, promise, files, fields, tempFiles,
                  pendingFiles, finished, ws, disk, kMultipart, kTempFiles, iter, gen,
                  phase, manual, again >>

\* async toBuffer () { return fs.promises.readFile(tempFilePath) }
ToBuffer(d, path) ==
  IF d[path] # None
    THEN [Returned("toBuffer", d[path][1]) EXCEPT !.list = Some(<< path >>)]
    ELSE [Threw("toBuffer", "ENOENT") EXCEPT !.list = Some(<< path >>)]

\* The caller holds the resolved result: the route handler after its await,
\* or code that kept the result until after the onResponse hook
HoldsResult == promise.state = "resolved" /\ phase \in {"handler", "cleaned"}

\* The holder of the result awaits toBuffer() of one of its descriptors
RequestToBuffer ==
  /\ HoldsResult
  /\ \E i \in 1 .. Len(promise.result[1].files) :
       call' = ToBuffer(disk, promise.result[1].files[i]._tempPath)
  /\ UNCHANGED << header, body, limits, conc, bb, promise, files, fields, tempFiles,
                  pendingFiles, finished, ws, disk, kMultipart, kTempFiles, iter, gen,
                  phase, manual, again >>

\* the stream of a missing file ends without data and without an error
CreateReadStream_EmptyWhenMissing(d, path) ==
  IF d[path] # None
    THEN [Returned("createReadStream", d[path][1]) EXCEPT !.list = Some(<< path >>)]
    ELSE [Returned("createReadStream", << >>) EXCEPT !.list = Some(<< path >>)]

\* createReadStream () { return fs.createReadStream(tempFilePath) }, read to
\* its end: the bytes of the file, or the 'error' the stream emits when the
\* file cannot be opened
CreateReadStream(d, path) ==
  IF d[path] # None
    THEN [Returned("createReadStream", d[path][1]) EXCEPT !.list = Some(<< path >>)]
    ELSE [Threw("createReadStream", "ENOENT") EXCEPT !.list = Some(<< path >>)]

\* The holder of the result reads createReadStream() of one of its descriptors
RequestReadStream ==
  /\ HoldsResult
  /\ \E i \in 1 .. Len(promise.result[1].files) :
       call' = CreateReadStream(disk, promise.result[1].files[i]._tempPath)
  /\ UNCHANGED << header, body, limits, conc, bb, promise, files, fields, tempFiles,
                  pendingFiles, finished, ws, disk, kMultipart, kTempFiles, iter, gen,
                  phase, manual, again >>

\* the getter without its try/catch: statSync throws on a missing file
Size_ThrowsWhenMissing(d, path) ==
  IF d[path] # None
    THEN [Returned("size", << Len(d[path][1]) >>) EXCEPT !.list = Some(<< path >>)]
    ELSE [Threw("size", "ENOENT") EXCEPT !.list = Some(<< path >>)]

\* get size () { try { return fs.statSync(tempFilePath).size } catch (err)
\* { return 0 } }
Size(d, path) ==
  IF d[path] # None
    THEN [Returned("size", << Len(d[path][1]) >>) EXCEPT !.list = Some(<< path >>)]
    ELSE [Returned("size", << 0 >>) EXCEPT !.list = Some(<< path >>)]

\* The holder of the result reads .size of one of its descriptors
RequestSize ==
  /\ HoldsResult
  /\ \E i \in 1 .. Len(promise.result[1].files) :
       call' = Size(disk, promise.result[1].files[i]._tempPath)
  /\ UNCHANGED << header, body, limits, conc, bb, promise, files, fields, tempFiles,
                  pendingFiles, finished, ws, disk, kMultipart, kTempFiles, iter, gen,
                  phase, manual, again >>

\* ---------------------------------------------------------- request.parts()
\* The first step of the generator, run by the consumer's first next(): the
\* content-type test, then busboy(...) (a throw ends the generator with that
\* error), the locals, the handler registrations, this.raw.pipe(bb) and the
\* first turn of the loop, which finds nothing and waits on setImmediate.
PartsStart ==
  IF ~IsMultipart(header)
    THEN /\ iter' = [state |-> "thrown", error |-> InvalidMultipartContentType]
         /\ gen' = gen
  ELSE IF ~BusboyAccepts(header)
    THEN /\ iter' = [state |-> "thrown", error |-> UnsupportedContentType]
         /\ gen' = gen
  ELSE /\ iter' = [state |-> "running", error |-> NoError]
       /\ gen' = [NoGen EXCEPT !.bb.state = "running",
                               !.streams = [p \in 1 .. Len(body) |-> NoStream]]

\* The handler of the request calls request.parts() and pulls
PartsFirstStep ==
  /\ phase = "idle"
  /\ phase' = "handler"
  /\ PartsStart
  /\ call' = NoCall
  /\ UNCHANGED << header, body, limits, conc, manual, again, bb, promise, files, fields, tempFiles, pendingFiles,
                  finished, ws, disk, kMultipart, kTempFiles >>

\* What the generator leaves alone: the request's fields and parseMultipart's
ParseState == << header, body, limits, conc, bb, promise, files, fields, tempFiles,
                pendingFiles, finished, ws, disk, kMultipart, kTempFiles, manual,
                again >>

\* The object pushed for part p of the body: parts.push({ type: 'file',
\* fieldname, filename, encoding, mimetype, stream: passThrough, size:
\* fileSize }) or parts.push({ type: 'field', fieldname, value }).  The stream
\* is gen.streams[p]; size is the value fileSize has at the push.
PartObj(p) ==
  IF body[p].type = "file"
    THEN [type |-> "file", part |-> p, fieldname |-> body[p].name, value |-> "",
          filename |-> Filename(body[p]), mimetype |-> Mimetype(body[p]),
          size |-> NoStream.fileSize]
    ELSE [type |-> "field", part |-> p, fieldname |-> body[p].name,
          value |-> body[p].value, filename |-> "", mimetype |-> "", size |-> 0]

\* bb.on('file', ...): a PassThrough is created and the part is queued
OnPartsFile(g, p) ==
  [g EXCEPT !.parts = Append(@, PartObj(p)),
            !.streams[p] = [NoStream EXCEPT !.state = "open"]]

\* bb.on('field', ...): the part is queued
OnPartsField(g, p) == [g EXCEPT !.parts = Append(@, PartObj(p))]

\* the handler sets the error and leaves finished as it is
OnPartsError_NotFinished(g, err) == [g EXCEPT !.error = err]

\* bb.on('error'), bb.on('filesLimit'), bb.on('fieldsLimit'): error = ...;
\* finished = true
OnPartsError(g, err) == [g EXCEPT !.error = err, !.finished = TRUE]

\* the 'finish' handler left out: finished stays as it is
OnPartsFinish_Forgotten(g) == g

\* bb.on('finish', () => { finished = true })
OnPartsFinish(g) == [g EXCEPT !.finished = TRUE]

\* the PassThrough keeps only the chunk written last
PassThroughWrite_KeepsLast(buffer, chunk) == chunk

\* passThrough.write(chunk): the chunk is appended to what is not read yet;
\* the return value of write is not looked at
PassThroughWrite(buffer, chunk) == buffer \o chunk

\* stream.on('data', (chunk) => ...) of the file of part p
OnPartsData(g, p, chunk) ==
  LET fileSize == g.streams[p].fileSize + Len(chunk) IN
  IF limits.fileSize # 0 /\ fileSize > limits.fileSize
    THEN [g EXCEPT !.streams[p].fileSize = fileSize,
                   !.streams[p].state = "destroyed",
                   !.streams[p].buffer = << >>,
                   !.error = FileSizeLimit, !.finished = TRUE]
    ELSE [g EXCEPT !.streams[p].fileSize = fileSize,
                   !.streams[p].buffer = PassThroughWrite(@, chunk)]

\* stream.on('end', () => { passThrough.end() })
OnPartsEnd(g, p) ==
  [g EXCEPT !.streams[p].state = IF @ = "open" THEN "ended" ELSE @]

\* stream.on('error', (err) => { passThrough.destroy(err) }) for every file
\* stream the tokenizer destroys when it fails
OnPartsStreamError(g) ==
  [g EXCEPT !.streams = [p \in DOMAIN g.streams |->
       IF g.streams[p].state = "open"
         THEN [g.streams[p] EXCEPT !.state = "destroyed", !.buffer = << >>]
         ELSE g.streams[p]]]

\* History: the tokenizer has emitted 'file' or 'field' for part p
Emit(g, p) == [g EXCEPT !.emitted = Append(@, p)]

\* History: the numbers of parts emitted and queued when error was first set
MarkError(g, before) ==
  IF before.error = NoError /\ g.error # NoError
    THEN [g EXCEPT !.errEmitted = Len(before.emitted),
                   !.errBuffered = Len(before.parts)]
    ELSE g

\* The tokenizer of parts() reaches a field part: 'fieldsLimit' (once) when
\* limits.fields fields were emitted, else 'field'
PartsTokField ==
  /\ gen.bb.state = "running" /\ gen.bb.cur = 0
  /\ gen.bb.pos <= Len(body) /\ body[gen.bb.pos].type = "field"
  /\ LET p == gen.bb.pos IN
     gen' = IF gen.bb.fields = limits.fields
              THEN LET g == [gen EXCEPT !.bb.pos = @ + 1, !.bb.hitFields = TRUE]
                   IN  IF gen.bb.hitFields THEN g
                       ELSE MarkError(OnPartsError(g, FieldsLimit), gen)
              ELSE OnPartsField(Emit([gen EXCEPT !.bb.pos = @ + 1,
                                                 !.bb.fields = @ + 1], p), p)
  /\ call' = NoCall
  /\ UNCHANGED << ParseState, iter, phase >>

\* The tokenizer of parts() reaches a file part: 'filesLimit' (once) when
\* limits.files files were emitted, else 'file'
PartsTokFileStart ==
  /\ gen.bb.state = "running" /\ gen.bb.cur = 0
  /\ gen.bb.pos <= Len(body) /\ body[gen.bb.pos].type = "file"
  /\ LET p == gen.bb.pos IN
     gen' = IF gen.bb.files = limits.files
              THEN LET g == [gen EXCEPT !.bb.pos = @ + 1, !.bb.hitFiles = TRUE]
                   IN  IF gen.bb.hitFiles THEN g
                       ELSE MarkError(OnPartsError(g, FilesLimit), gen)
              ELSE OnPartsFile(Emit([gen EXCEPT !.bb.files = @ + 1, !.bb.cur = p,
                                                !.bb.sent = 0, !.bb.skip = FALSE], p), p)
  /\ call' = NoCall
  /\ UNCHANGED << ParseState, iter, phase >>

\* The data of file part p comes in two chunks, as the request delivers it:
\* the first byte, then the other bytes; the tokenizer cuts what it hands on
\* at limits.fileSize
PartsChunk(p, sent) ==
  LET n == IF body[p].size < limits.fileSize THEN body[p].size ELSE limits.fileSize
      last == IF sent = 0 THEN 1 ELSE n
  IN  [i \in 1 .. last - sent |-> Byte(p, sent + i)]

\* The next chunk of the current file part: the tokenizer pushes it to the
\* file stream, whose 'data' handler runs at once (the stream is flowing);
\* when the tokenizer's count reaches limits.fileSize the rest of the part
\* is skipped.
PartsTokFileData ==
  /\ gen.bb.state = "running" /\ gen.bb.cur # 0 /\ ~gen.bb.skip
  /\ gen.bb.sent < body[gen.bb.pos].size
  /\ LET p == gen.bb.cur
         chunk == PartsChunk(p, gen.bb.sent)
         n == gen.bb.sent + Len(chunk)
         g == [gen EXCEPT !.bb.sent = n, !.bb.skip = TokenizerLimit(n)]
     IN  gen' = MarkError(OnPartsData(g, p, chunk), gen)
  /\ call' = NoCall
  /\ UNCHANGED << ParseState, iter, phase >>

\* End of the current file part: the file stream emits 'end'
PartsTokFileEnd ==
  /\ gen.bb.state = "running" /\ gen.bb.cur # 0
  /\ (gen.bb.skip \/ gen.bb.sent = body[gen.bb.pos].size)
  /\ gen' = OnPartsEnd([gen EXCEPT !.bb.pos = @ + 1, !.bb.cur = 0, !.bb.sent = 0,
                                   !.bb.skip = FALSE], gen.bb.cur)
  /\ call' = NoCall
  /\ UNCHANGED << ParseState, iter, phase >>

\* The tokenizer of parts() has consumed the whole body: 'finish'
PartsTokFinish ==
  /\ gen.bb.state = "running" /\ gen.bb.cur = 0 /\ gen.bb.pos > Len(body)
  /\ gen' = OnPartsFinish([gen EXCEPT !.bb.state = "finished"])
  /\ call' = NoCall
  /\ UNCHANGED << ParseState, iter, phase >>

\* The tokenizer of parts() emits 'error' (malformed body, early end); it
\* destroys the file stream it was feeding
PartsTokError ==
  /\ gen.bb.state = "running"
  /\ gen' = MarkError(OnPartsError(OnPartsStreamError(
                         [gen EXCEPT !.bb.state = "errored"]), MalformedBody), gen)
  /\ call' = NoCall
  /\ UNCHANGED << ParseState, iter, phase >>

\* const part = parts.shift(); yield part
Yield(g) ==
  [iter |-> [state |-> "yielded", error |-> NoError],
   gen  |-> [g EXCEPT !.parts = Tail(@), !.yielded = Append(@, Head(g.parts)),
                      !.chunks = NoChunks]]

Throw(g) == [iter |-> [state |-> "thrown", error |-> g.error], gen |-> g]

\* the generator without its second loop: it ends as soon as finished is set
GenStep_NoDrain(g) ==
  IF ~g.finished
    THEN IF g.error # NoError THEN Throw(g)
         ELSE IF Len(g.parts) > 0 THEN Yield(g)
         ELSE [iter |-> [state |-> "running", error |-> NoError], gen |-> g]
    ELSE IF g.error # NoError THEN Throw(g)
         ELSE [iter |-> [state |-> "done", error |-> NoError], gen |-> g]

\* One run of the generator from where it stands to its next yield, await,
\* throw or return: while (!finished) { if (error) throw error; if
\* (parts.length > 0) yield parts.shift() else await setImmediate }; while
\* (parts.length > 0) yield parts.shift(); if (error) throw error
GenStep(g) ==
  IF ~g.finished
    THEN IF g.error # NoError THEN Throw(g)
         ELSE IF Len(g.parts) > 0 THEN Yield(g)
         ELSE [iter |-> [state |-> "running", error |-> NoError], gen |-> g]
    ELSE IF Len(g.parts) > 0 THEN Yield(g)
         ELSE IF g.error # NoError THEN Throw(g)
         ELSE [iter |-> [state |-> "done", error |-> NoError], gen |-> g]

\* setImmediate fires and the generator, which found nothing at its last
\* turn, takes another turn of the loop
GenResume ==
  /\ phase = "handler" /\ iter.state = "running"
  /\ GenStep(gen).iter.state # "running"
  /\ iter' = GenStep(gen).iter
  /\ gen' = GenStep(gen).gen
  /\ call' = NoCall
  /\ UNCHANGED << ParseState, phase >>

\* The consumer, which was given a part, asks for the next one
ConsumerNext ==
  /\ phase = "handler" /\ iter.state = "yielded"
  /\ iter' = GenStep(gen).iter
  /\ gen' = GenStep(gen).gen
  /\ call' = NoCall
  /\ UNCHANGED << ParseState, phase >>

\* const chunks = []; for await (const chunk of part.stream) chunks.push(chunk):
\* the consumer, before it asks for the next part, reads what the stream of
\* the part it was given holds, or sees its end or its error
ConsumerRead ==
  /\ phase = "handler" /\ iter.state = "yielded"
  /\ LET part == gen.yielded[Len(gen.yielded)]
         st == gen.streams[part.part]
         first == IF gen.chunks.firstRead = "" THEN st.state ELSE gen.chunks.firstRead
     IN  /\ part.type = "file"
         /\ gen.chunks.seen = ""
         /\ \/ /\ st.buffer # << >>
               /\ gen' = [gen EXCEPT !.chunks.read = @ \o st.buffer,
                                     !.chunks.firstRead = first,
                                     !.streams[part.part].buffer = << >>]
            \/ /\ st.buffer = << >> /\ st.state = "ended"
               /\ gen' = [gen EXCEPT !.chunks.seen = "end",
                                     !.chunks.firstRead = first]
            \/ /\ st.state = "destroyed"
               /\ gen' = [gen EXCEPT !.chunks.seen = "error",
                                     !.chunks.firstRead = first]
  /\ call' = NoCall
  /\ UNCHANGED << ParseState, iter, phase >>

\* The route handler awaited parseMultipart() or iterated parts(); once that
\* has settled it returns or replies with the error, and the response is sent.
Respond ==
  /\ phase = "handler"
  /\ promise.state \in {"resolved", "rejected"} \/ iter.state \in {"thrown", "done"}
  /\ phase' = "responded"
  /\ call' = NoCall
  /\ UNCHANGED << header, body, limits, conc, manual, again, bb, promise, files, fields, tempFiles, pendingFiles,
                  finished, ws, disk, kMultipart, kTempFiles, iter, gen >>

\* ------------------------------------------------ request.cleanupTempFiles()
\* fs.promises.unlink(tempPath) fails on a path that does not exist (ENOENT:
\* already removed, never created) or that may not be removed (EPERM)
UnlinkFails(d, p) == d[p] = None \/ p = Protected

\* the unlinks are made one after the other and the first failure ends them
Unlink_FirstFailureStops(d, list) ==
  [p \in AllPaths |->
     IF \E i \in 1 .. Len(list) :
          list[i] = p /\ \A j \in 1 .. i : ~UnlinkFails(d, list[j])
       THEN None ELSE d[p]]

\* filesToClean.map(tempPath => fs.promises.unlink(tempPath)...): every path
\* of the list is unlinked, whatever happens to the others
Unlink(d, list) ==
  [p \in AllPaths |->
     IF Includes(list, p) /\ ~UnlinkFails(d, p) THEN None ELSE d[p]]

\* the unlink promise without its catch: a failure rejects it
Caught_Rethrown(failed) == failed

\* .catch(() => {}): whether the promise of one unlink is still rejected
Caught(failed) == FALSE

NullMap == "TypeError: Cannot read properties of null (reading 'map')"
UnlinkError == "ENOENT or EPERM"

\* const filesToClean = tempFiles || this[kTempFiles]
FilesToClean(arg, ktf) == IF arg # None THEN arg ELSE ktf

\* The outcome of cleanupTempFiles(arg): filesToClean.map throws on null;
\* await Promise.all(cleanupPromises) rejects if one of the promises does.
CleanupTempFiles(d, arg, ktf) ==
  LET filesToClean == FilesToClean(arg, ktf) IN
  IF filesToClean = None
    THEN Threw("cleanupTempFiles", NullMap)
    ELSE LET list == filesToClean[1] IN
         IF \E i \in 1 .. Len(list) : Caught(UnlinkFails(d, list[i]))
           THEN [Threw("cleanupTempFiles", UnlinkError) EXCEPT !.list = filesToClean]
           ELSE [Returned("cleanupTempFiles", << >>) EXCEPT !.list = filesToClean]

\* the cleanup forgets the paths it has removed
ListAfterCleanup_Cleared(list) == IF list = None THEN None ELSE Some(<< >>)

\* request[kTempFiles] after cleanupTempFiles has run: the function reads
\* the list and assigns nothing
ListAfterCleanup(list) == list

\* The lists a caller passes: none, or (once it holds the result) a file of
\* its own that may not be removed followed by the result's _tempFiles
Args == { None } \cup
          IF promise.state = "resolved"
            THEN { Some(<< Protected >> \o promise.result[1]._tempFiles) } ELSE { }

\* A manual call of request.cleanupTempFiles(arg), from the handler or later
ManualCleanup ==
  \E arg \in Args :
    LET filesToClean == FilesToClean(arg, kTempFiles) IN
    /\ HandlerRuns \/ phase = "cleaned"
    /\ call' = CleanupTempFiles(disk, arg, kTempFiles)
    /\ IF filesToClean = None
         THEN UNCHANGED << disk, manual >>
         ELSE /\ manual' = TRUE
              /\ disk' = Unlink(disk, filesToClean[1])
    /\ kTempFiles' = ListAfterCleanup(kTempFiles)
    /\ UNCHANGED << header, body, limits, conc, bb, promise, files, fields, tempFiles,
                    pendingFiles, finished, ws, kMultipart, iter, gen, phase,
                    again >>

\* the test of the hook turned round: it cleans only an empty list
HookCleans_EmptyOnly(list) == list # None /\ Len(list[1]) = 0

\* if (tempFiles && Array.isArray(tempFiles) && tempFiles.length > 0)
HookCleans(list) == list # None /\ Len(list[1]) > 0

\* fastify.addHook('onResponse', ...): await request.cleanupTempFiles() when
\* the request has a non-empty list
OnResponse ==
  /\ phase = "responded"
  /\ phase' = "cleaned"
  /\ IF HookCleans(kTempFiles)
       THEN /\ disk' = Unlink(disk, kTempFiles[1])
            /\ call' = [CleanupTempFiles(disk, None, kTempFiles) EXCEPT !.op = "onResponse"]
            /\ kTempFiles' = ListAfterCleanup(kTempFiles)
       ELSE /\ disk' = disk
            /\ call' = Returned("onResponse", << >>)
            /\ kTempFiles' = kTempFiles
  /\ UNCHANGED << header, body, limits, conc, manual, again, bb, promise, files, fields,
                  tempFiles, pendingFiles, finished, ws, kMultipart, iter, gen >>

Next ==
  \/ ParseMultipart
  \/ PartsFirstStep
  \/ TokField
  \/ TokFileStart
  \/ TokFileData
  \/ TokFileEnd
  \/ TokFinish
  \/ TokError
  \/ \E i \in 1 .. Len(ws) : WsFinish(i)
  \/ \E i \in 1 .. Len(ws) : WsError(i)
  \/ ParseMultipartAgain
  \/ AgainEnd
  \/ RequestToBuffer
  \/ RequestReadStream
  \/ RequestSize
  \/ RequestFile
  \/ RequestFiles
  \/ ManualCleanup
  \/ Respond
  \/ OnResponse

Spec == Init /\ [][Next]_vars

\* ------------------------------------------------- the steps of parts()
PartsNext ==
  \/ PartsFirstStep
  \/ PartsTokField
  \/ PartsTokFileStart
  \/ PartsTokFileData
  \/ PartsTokFileEnd
  \/ PartsTokFinish
  \/ PartsTokError
  \/ GenResume
  \/ ConsumerNext
  \/ ConsumerRead

\* The requests parts() is checked on: what a field is called or holds
\* makes no difference to parts(), so all fields are the same
PartsInit ==
  Init /\ \A p \in 1 .. Len(body) : body[p].type = "field" => body[p] = FieldPart("name", "x")

\* A request whose handler iterates request.parts(), up to the end of the
\* iteration
PartsSpec == PartsInit /\ [][PartsNext]_vars

\* ------------------------------------------------ parts() with scheduling
\* Any event of the tokenizer of parts()
PartsTokStep ==
  \/ PartsTokField
  \/ PartsTokFileStart
  \/ PartsTokFileData
  \/ PartsTokFileEnd
  \/ PartsTokFinish
  \/ PartsTokError

\* The consumer asks for the next part once it is through with the one it
\* holds: a field, or a file whose stream it has read to its end or error
DrainingNext ==
  /\ iter.state = "yielded"
  /\ \/ gen.yielded[Len(gen.yielded)].type = "field"
     \/ gen.chunks.seen # ""
  /\ ConsumerNext

\* The requests the scheduling is checked on: files below and above
\* limits.fileSize, and the larger limits.fields (enough parts fit in a body
\* to pass it)
FairPartsInit ==
  /\ PartsInit
  /\ limits.fields = LimFields
  /\ \A p \in 1 .. Len(body) : body[p].type = "file" => body[p].size # limits.fileSize

\* The request body ends (the tokenizer gets all of it, up to 'finish' or
\* 'error'), the event loop runs the setImmediate callbacks, and the
\* consumer keeps reading the stream it holds and pulling
FairPartsSpec ==
  /\ FairPartsInit /\ [][PartsNext]_vars
  /\ WF_vars(PartsTokStep)
  /\ WF_vars(GenResume)
  /\ WF_vars(ConsumerRead)
  /\ WF_vars(DrainingNext)

\* ------------------------------- the same body through both entry points
\* A second request with the same headers and the same body, sent once
\* parseMultipart has settled on the first and the first's events are over;
\* its handler iterates request.parts().  The generator has its own
\* tokenizer and locals.
PartsOnSameBody ==
  /\ phase = "handler" /\ promise.state \in {"resolved", "rejected"}
  /\ bb.state # "running"
  /\ \A i \in 1 .. Len(ws) : ws[i].state \notin {"open", "ending"}
  /\ iter.state = "none"
  /\ PartsStart
  /\ call' = NoCall
  /\ UNCHANGED << ParseState, phase >>

BothNext ==
  \/ ParseMultipart
  \/ TokField
  \/ TokFileStart
  \/ TokFileData
  \/ TokFileEnd
  \/ TokFinish
  \/ \E i \in 1 .. Len(ws) : WsFinish(i)
  \/ PartsOnSameBody
  \/ PartsTokField
  \/ PartsTokFileStart
  \/ PartsTokFileData
  \/ PartsTokFileEnd
  \/ PartsTokFinish
  \/ GenResume
  \/ ConsumerNext
  \/ ConsumerRead

\* parseMultipart, then parts(), on the same body, without I/O or tokenizer
\* faults
BothSpec == PartsInit /\ [][BothNext]_vars

\* ------------------------------------------------- early connection close
\* The connection closes before the body is complete: request.raw emits
\* 'close' without 'end'.  request.raw.pipe(bb) forwards data and 'end' only,
\* and neither parseMultipart nor the plugin listens for 'close', 'aborted'
\* or 'error' on request.raw: the tokenizer gets no further byte and no end,
\* so it emits nothing more; the promise, the write streams, the temp files
\* and the request's fields stay as they are.
ConnClose ==
  /\ bb.state = "running"
  /\ bb.pos <= Len(body) \/ bb.cur # 0
  /\ bb' = [bb EXCEPT !.state = "aborted"]
  /\ call' = NoCall
  /\ UNCHANGED << header, body, limits, conc, promise, files, fields, tempFiles,
                  pendingFiles, finished, ws, disk, kMultipart, kTempFiles, iter, gen,
                  phase, manual, again >>

AbortNext ==
  \/ Next
  \/ ConnClose

\* The plugin on connections that may close early
AbortSpec == Init /\ [][AbortNext]_vars

\* ------------------------------------------- two requests in one process
\* Two requests are parsed by the same process, their events interleaved by
\* the event loop.  A body is its parts' kinds; the bytes of a file part are
\* left out, its write stream is created flushing ("ending").
ConcKinds  == { "field", "file" }
\* Request 1 is the longer one: request 2 has fewer parts
ConcBodies(r) == UNION { [1 .. n -> ConcKinds] : n \in 1 .. (MaxConcParts + 1 - r) }
\* what Math.random().toString(36).substring(7) returns
Suffixes   == { "k3x9q", "k3x9r" }

\* the value of every field of request r, and the identity of its part i
ConcValue(r)   == IF r = 1 THEN "a" ELSE "b"
ConcPart(r, i) == << r, i >>

\* one counter kept at module level, shared by every call
CounterOf_Shared(r) == 1

\* let pendingFiles = 0 inside the executor: every call has its own counter
CounterOf(r) == r

\* the path built from the timestamp alone
TempFilePath_NoSuffix(t, rnd) == [t |-> t, rnd |-> ""]

\* path.join(config.tempDir, `upload_${Date.now()}_${Math.random()
\*   .toString(36).substring(7)}`)
TempFilePath(t, rnd) == [t |-> t, rnd |-> rnd]

\* the descriptor pushed by the 'finish' handler of write stream w
ConcFileObj(w) == [fieldname |-> "file", part |-> w.part, _tempPath |-> w.path]

ConcRest == << header, body, limits, bb, promise, files, fields, tempFiles,
              pendingFiles, finished, ws, disk, kMultipart, kTempFiles, iter,
              phase, call, manual, again, gen >>

\* request r calls parseMultipart: new locals, the counter at 0, bb piped
ConcParse(r, b) ==
  /\ conc.reqs[r].state = "none"
  /\ conc' = [conc EXCEPT
                !.reqs[r] = [NoRequest EXCEPT !.state = "running", !.body = b,
                                              !.promise = Pending],
                !.pendingFiles[CounterOf(r)] = 0]
  /\ UNCHANGED ConcRest

\* bb.on('field') of request r
ConcTokField(r) ==
  LET q == conc.reqs[r] IN
  /\ q.state = "running" /\ q.pos <= Len(q.body) /\ q.body[q.pos] = "field"
  /\ conc' = [conc EXCEPT
                !.reqs[r].fields = OnField(q.fields, "name", ConcValue(r)),
                !.reqs[r].pos = q.pos + 1]
  /\ UNCHANGED ConcRest

\* bb.on('file') of request r: the counter goes up, the path is built from
\* the clock and a random suffix, the write stream is opened on it with no
\* test that the path is unused, and the path is tracked
ConcTokFile(r, rnd) ==
  LET q    == conc.reqs[r]
      path == TempFilePath(conc.clock, rnd)
      w    == [path |-> path, part |-> ConcPart(r, q.pos), t |-> conc.clock,
               rnd |-> rnd, state |-> "ending"]
  IN
  /\ q.state = "running" /\ q.pos <= Len(q.body) /\ q.body[q.pos] = "file"
  /\ conc' = [conc EXCEPT
                !.pendingFiles[CounterOf(r)] = FileStarted(@),
                !.reqs[r].tempFiles = TrackTempFile(q.tempFiles, path),
                !.reqs[r].ws = Append(q.ws, w),
                !.reqs[r].pos = q.pos + 1]
  /\ UNCHANGED ConcRest

\* what settles when the last event of request r has come
ConcPublish(q) ==
  LET result == Result(q.files, q.fields, q.tempFiles) IN
  [q EXCEPT !.kMultipart = Some(result), !.kTempFiles = Some(q.tempFiles),
            !.promise = Resolve(q.promise, result)]

\* writeStream.on('finish') of write stream i of request r
ConcWsFinish(r, i) ==
  LET q       == conc.reqs[r]
      pending == conc.pendingFiles[CounterOf(r)] - 1
      done    == [q EXCEPT !.ws[i].state = "finished",
                           !.files = Append(q.files, ConcFileObj(q.ws[i]))]
  IN
  /\ i \in 1 .. Len(q.ws) /\ q.ws[i].state = "ending"
  /\ conc' = [conc EXCEPT
                !.pendingFiles[CounterOf(r)] = pending,
                !.reqs[r] = IF AllWritten(pending, q.finished)
                              THEN ConcPublish(done) ELSE done]
  /\ UNCHANGED ConcRest

\* bb.on('finish') of request r
ConcTokFinish(r) ==
  LET q    == conc.reqs[r]
      done == [q EXCEPT !.state = "finished", !.finished = TRUE]
  IN
  /\ q.state = "running" /\ q.pos > Len(q.body)
  /\ conc' = [conc EXCEPT
                !.reqs[r] = IF NoPending(conc.pendingFiles[CounterOf(r)])
                              THEN ConcPublish(done) ELSE done]
  /\ UNCHANGED ConcRest

\* a millisecond passes: Date.now() reads the next value.  Instants at which
\* no path was built cannot be told apart, so the clock moves on only from an
\* instant some path was built at.
Tick ==
  /\ conc.clock < MaxClock
  /\ \E r \in Requests : \E i \in 1 .. Len(conc.reqs[r].ws) :
        conc.reqs[r].ws[i].t = conc.clock
  /\ conc' = [conc EXCEPT !.clock = conc.clock + 1]
  /\ UNCHANGED ConcRest

ConcNext ==
  \/ \E r \in Requests : \E b \in ConcBodies(r) : ConcParse(r, b)
  \/ \E r \in Requests : ConcTokField(r)
  \/ \E r \in Requests, rnd \in Suffixes : ConcTokFile(r, rnd)
  \/ \E r \in Requests, i \in 1 .. MaxConcParts : ConcWsFinish(r, i)
  \/ \E r \in Requests : ConcTokFinish(r)
  \/ Tick

\* Both requests are multipart; the single-request variables stay as built
ConcInit == Init /\ header = << MP >> /\ body = << >> /\ limits.fields = LimFields

ConcSpec == ConcInit /\ [][ConcNext]_vars

\* ================================================================ properties
IsFile(p)  == p.type = "file"
IsField(p) == p.type = "field"
NFiles  == Len(SelectSeq(body, IsFile))
NFields == Len(SelectSeq(body, IsField))

\* The values submitted under field name n, in encounter order
Submitted(n) ==
  LET NamedN(p) == IsField(p) /\ p.name = n
      q == SelectSeq(body, NamedN)
  IN  [i \in 1 .. Len(q) |-> q[i].value]

\* The string values an entry of fields holds, in order
IsStr(x) == x.k = "string"
ValuesIn(entry) ==
  IF entry.k = "string" THEN << entry.v >>
  ELSE IF entry.k = "array"
    THEN LET q == SelectSeq(entry.items, IsStr) IN [i \in 1 .. Len(q) |-> q[i].v]
    ELSE << >>

Resolved == promise.state = "resolved"
Rejected == promise.state = "rejected"
RejectedWith(e) == promise.state = "rejected" /\ promise.error = e
\* The ParseResult a resolved promise carries
Res == promise.result[1]

\* No fault of the environment: no write I/O error, no malformed body
NoFault == bb.state # "errored" /\ \A i \in 1 .. Len(ws) : ws[i].state # "errored"

\* The body respects limits.files and limits.fields, and its files are
\* smaller than limits.fileSize (a file of exactly that size is C9's case)
WithinLimits ==
  /\ NFiles <= limits.files
  /\ NFields <= limits.fields
  /\ \A i \in 1 .. Len(body) : IsFile(body[i]) => body[i].size < limits.fileSize

\* ------------------------------------------------------------------------
\* C1: parseMultipart resolves only when the tokenizer has signalled overall
\* completion and the pending-file counter is 0: whenever the promise is
\* resolved, every write stream this parse opened has flushed.
C1_ResolveOnlyWhenAllDone ==
  Resolved =>
    /\ finished /\ bb.state = "finished"
    /\ pendingFiles = 0
    /\ \A i \in 1 .. Len(ws) : ws[i].state = "finished"

\* A parse of two files has resolved.
C1_Witness == Resolved /\ Len(ws) = 2 /\ Len(files) = 2

\* C2 (as claimed): for a body within the limits and without an I/O or
\* tokenizer fault, the parse is never rejected, and when it has resolved the
\* result has one descriptor per file part and every submitted field value.
C2_Claim ==
  (Declares(header, MP) /\ promise.state # "none" /\ WithinLimits /\ NoFault) =>
    /\ ~Rejected
    /\ Resolved =>
         /\ Len(Res.files) = NFiles
         /\ \A i \in 1 .. Len(body) : IsFile(body[i]) =>
              Cardinality({ j \in 1 .. Len(Res.files) :
                              Res.files[j].part = i }) = 1
         /\ \A n \in FieldNames : ValuesIn(Res.fields[n]) = Submitted(n)

\* C3 (as claimed): the descriptors of a resolved parse are in encounter
\* order of their file parts.
C3_Claim ==
  Resolved =>
    \A i, j \in 1 .. Len(Res.files) :
      i < j => Res.files[i].part < Res.files[j].part

\* C4 (as claimed): a field name that occurs k >= 2 times maps to the sequence
\* of all k values in encounter order, a name that occurs once to its scalar
\* value.  Stated for names that are not inherited properties; C5 covers those.
C4_Claim ==
  Resolved =>
    \A n \in FieldNames \ InheritedNames :
      /\ Len(Submitted(n)) >= 2 =>
           Res.fields[n] =
             Arr([i \in 1 .. Len(Submitted(n)) |-> Str(Submitted(n)[i])])
      /\ Len(Submitted(n)) = 1 => Res.fields[n] = Str(Submitted(n)[1])

\* C5 (as claimed): every entry of fields in a result is a plain string or a
\* sequence of plain strings.
C5_Claim ==
  Resolved =>
    \A n \in FieldNames :
      LET e == Res.fields[n] IN
        \/ e.k = "undefined"
        \/ e.k = "string"
        \/ e.k = "array" /\ \A i \in 1 .. Len(e.items) : e.items[i].k = "string"

\* C6 (as claimed): when the content-type does not declare multipart/form-data
\* or is absent, parseMultipart rejects with InvalidMultipartContentType and
\* parts() throws it on its first step; no tokenizer, no temp file.
C6_Claim ==
  ~Declares(header, MP) =>
    /\ promise.state # "none" => RejectedWith(InvalidMultipartContentType)
    /\ iter.state # "none" =>
         iter = [state |-> "thrown", error |-> InvalidMultipartContentType]
    /\ bb.state = "none" /\ tempFiles = << >>
    /\ \A p \in Paths : disk[p] = None

\* ------------------------------------------------------------------------
\* The step in which the tokenizer signals 'limit' on the current file
LimitSignalled == ~bb.skip /\ bb'.skip

\* C7 (as claimed): once 'limit' has been signalled on a file larger than
\* limits.fileSize, the parse is rejected with FileSizeLimit.
C7_Claim == (bb.skip /\ body[bb.pos].size > LimFileSize) => RejectedWith(FileSizeLimit)

\* C7 (amended): in the step that signals 'limit' the write of that file is
\* aborted and the promise is rejected: with FileSizeLimit if it was pending,
\* and with the error of the earlier failure, unchanged, if it was not.
C7_LimitAbortsAndRejects ==
  [][ LimitSignalled =>
        /\ ws'[bb.cur].state \in {"destroyed", "errored"}
        /\ promise'.state = "rejected"
        /\ promise.state = "pending" => promise'.error = FileSizeLimit
        /\ promise.state # "pending" => promise' = promise
    ]_vars

\* An oversized file hit the limit: write destroyed, rejected with FileSizeLimit.
C7_Witness ==
  /\ bb.skip /\ body[bb.pos].size > LimFileSize
  /\ ws[bb.cur].state = "destroyed"
  /\ RejectedWith(FileSizeLimit)

\* C8 (as claimed): after the parse of a body with an oversized file part was
\* rejected with FileSizeLimit and the rejection has settled (response sent,
\* cleanup hook run), no temp file of the request remains.
C8_Claim ==
  ( /\ \E i \in 1 .. Len(body) : IsFile(body[i]) /\ body[i].size > LimFileSize
    /\ RejectedWith(FileSizeLimit) /\ phase = "cleaned" ) =>
    \A p \in Paths : disk[p] = None

\* C9 (as claimed): a body whose only part is a file of exactly limits.fileSize
\* bytes resolves with that file; one of limits.fileSize + 1 bytes rejects
\* with FileSizeLimit.  Stated for runs without I/O or tokenizer faults.
C9_Claim ==
  (Len(body) = 1 /\ IsFile(body[1]) /\ NoFault) =>
    /\ body[1].size = LimFileSize => ~Rejected
    /\ (body[1].size = LimFileSize /\ Resolved) =>
         (Len(Res.files) = 1 /\ Res.files[1].part = 1)
    /\ (body[1].size = LimFileSize + 1 /\ promise.state \in {"resolved", "rejected"})
         => RejectedWith(FileSizeLimit)

\* C10 (as claimed): once the tokenizer has met more file parts than
\* limits.files, the parse is rejected with FilesLimit.
C10_Claim == bb.hitFiles => RejectedWith(FilesLimit)

\* C10 (amended): from the step in which the tokenizer meets file part number
\* limits.files + 1 on, the promise is rejected and never resolved: with
\* FilesLimit if it was pending at that step, otherwise with the error of the
\* earlier failure.
C10_FilesLimitRejects ==
  [][ bb'.hitFiles =>
        /\ promise'.state = "rejected"
        /\ (~bb.hitFiles /\ promise.state = "pending") => promise'.error = FilesLimit
        /\ promise.state = "rejected" => promise' = promise
    ]_vars

\* Three file parts against limits.files = 2: rejected with FilesLimit while
\* the first two files were written in full.
C10_Witness ==
  /\ bb.hitFiles /\ RejectedWith(FilesLimit)
  /\ Len(files) = LimFiles

\* ------------------------------------------------------------------------
\* C11 as stated: once the tokenizer has met more field parts than
\* limits.fields, the promise is rejected with FieldsLimit.
C11_Claim == bb.hitFields => RejectedWith(FieldsLimit)

\* C11, amended: the step in which the tokenizer signals 'fieldsLimit' leaves
\* the promise rejected, never resolved with a truncated fields mapping: with
\* FieldsLimit when it was still pending, and with the error of the earlier
\* rejection when it had been rejected before; once fieldsLimit was signalled
\* no later step changes a rejected promise.
C11_FieldsLimitRejects ==
  [][ bb'.hitFields =>
        /\ promise'.state = "rejected"
        /\ (~bb.hitFields /\ promise.state = "pending") => promise'.error = FieldsLimit
        /\ promise.state = "rejected" => promise' = promise
    ]_vars

\* the body has more field parts than limits.fields, the mapping holds only
\* the first limits.fields of them, and the promise is rejected with FieldsLimit
C11_Witness ==
  /\ bb.hitFields /\ RejectedWith(FieldsLimit)
  /\ bb.fields = limits.fields /\ NFields > limits.fields
  /\ bb.state = "finished"

\* ------------------------------------------------------------------------
\* C12: once parseMultipart has rejected, no result is published on the
\* request scope, and request.file() and request.files() throw 'not parsed'.
C12_Claim ==
  Rejected =>
    /\ kMultipart = None
    /\ call.op \in {"file", "files"} => call.threw /\ call.error = NotParsed

\* ------------------------------------------------------------------------
\* C13: at the moment the promise rejects, the temp-path list of the request
\* (request[kTempFiles], which the hook and cleanupTempFiles() read) contains
\* every temp path the parse has created so far.
C13_Claim ==
  [][ (promise.state # "rejected" /\ promise'.state = "rejected" /\ Len(tempFiles') > 0)
        => /\ kTempFiles' # None
           /\ \A i \in 1 .. Len(tempFiles') : Includes(kTempFiles'[1], tempFiles'[i])
    ]_vars

\* ------------------------------------------------------------------------
\* The temp paths of the resolved result
ResultPaths == { Res._tempFiles[i] : i \in 1 .. Len(Res._tempFiles) }

\* C14: after parseMultipart has resolved, every path of the result's
\* _tempFiles exists on disk while the handler is running (and has made no
\* manual cleanup call); the run of the onResponse hook that follows the
\* response deletes every one of them, and none of them exists once the hook
\* has run.
C14_PathsExistThenHookDeletes ==
  /\ [](Resolved /\ phase = "handler" /\ ~manual
          => \A p \in ResultPaths : disk[p] # None)
  /\ [][ (Resolved /\ phase = "responded" /\ phase' = "cleaned")
          => \A p \in ResultPaths : disk'[p] = None ]_vars
  /\ [](Resolved /\ phase = "cleaned" => \A p \in ResultPaths : disk[p] = None)

\* a resolved parse with temp files, no manual cleanup, and the hook has run
C14_Witness ==
  /\ Resolved /\ phase = "cleaned" /\ ~manual
  /\ ResultPaths # { }
  /\ \A p \in ResultPaths : disk[p] = None

\* ------------------------------------------------------------------------
\* No tokenizer or write-stream event of the request is still to come
Quiescent ==
  /\ bb.state # "running"
  /\ \A i \in 1 .. Len(ws) : ws[i].state \in {"finished", "errored", "destroyed"}

\* C15: whatever the outcome of parseMultipart, once the response has
\* completed, the onResponse hook has run and the request's events are over,
\* no temp file the request created is left on disk.
C15_Claim ==
  (phase = "cleaned" /\ promise.state \in {"resolved", "rejected"} /\ Quiescent)
    => \A i \in 1 .. Len(tempFiles) : disk[tempFiles[i]] = None

\* ------------------------------------------------------------------------
\* The step is a run of cleanupTempFiles, manual or through the hook
CleanupRuns == call'.op \in {"cleanupTempFiles", "onResponse"}

\* C16: after a resolved parse no cleanupTempFiles() call and no run of the
\* hook raises; once one of them has run no temp file of the request exists;
\* and a further run, manual or through the hook, changes nothing on disk.
C16_CleanupIdempotent ==
  /\ [](Resolved /\ call.op \in {"cleanupTempFiles", "onResponse"} => ~call.threw)
  /\ [](Resolved /\ (manual \/ phase = "cleaned")
          => \A i \in 1 .. Len(tempFiles) : disk[tempFiles[i]] = None)
  /\ [][ (Resolved /\ (manual \/ phase = "cleaned") /\ CleanupRuns)
          => disk' = disk ]_vars

\* a manual call and the hook have both run on a resolved parse with files,
\* the later of the two just now
C16_Witness ==
  /\ Resolved /\ manual /\ phase = "cleaned"
  /\ Len(tempFiles) > 0
  /\ call.op \in {"cleanupTempFiles", "onResponse"} /\ ~call.threw
  /\ \A i \in 1 .. Len(tempFiles) : disk[tempFiles[i]] = None

\* ------------------------------------------------------------------------
\* C17: a run of cleanupTempFiles on a list (manual or through the hook)
\* does not raise, whatever unlink fails, and leaves none of the paths of
\* the list that can be removed: a path whose unlink fails does not keep the
\* others from being unlinked.
C17_BestEffortPerPath ==
  (call.op \in {"cleanupTempFiles", "onResponse"} /\ call.list # None)
    => /\ ~call.threw
       /\ \A i \in 1 .. Len(call.list[1]) :
            call.list[1][i] # Protected => disk[call.list[1][i]] = None

\* cleanupTempFiles was called in the handler with a list whose first path
\* cannot be unlinked: that path is still there, the temp files after it in
\* the list are gone
C17_Witness ==
  /\ call.op = "cleanupTempFiles" /\ ~call.threw /\ phase = "handler"
  /\ call.list = Some(<< Protected >> \o tempFiles)
  /\ Len(tempFiles) > 1
  /\ disk[Protected] # None
  /\ \A i \in 1 .. Len(tempFiles) : disk[tempFiles[i]] = None

\* ------------------------------------------------------------------------
\* C18: request.file() and request.files() throw on a request whose
\* parseMultipart has not resolved; after it has resolved, files() returns
\* the files of the result, and file() the first of them, or null (the empty
\* value) when there is none.
C18_Claim ==
  /\ (call.op \in {"file", "files"} /\ ~Resolved) => call.threw
  /\ (call.op = "files" /\ Resolved) => ~call.threw /\ call.value = Res.files
  /\ (call.op = "file" /\ Resolved)
       => /\ ~call.threw
          /\ call.value = IF Len(Res.files) > 0 THEN << Res.files[1] >> ELSE << >>

\* ------------------------------------------------------------------------
\* C19: a second parseMultipart() call on a request whose first call has
\* resolved settles with the ParseResult of the first call.
C19_Claim ==
  again.state \in {"resolved", "rejected"}
    => again.state = "resolved" /\ again.result = promise.result

\* ------------------------------------------------------------------------
\* The bytes submitted in file part p
Content(p) == [i \in 1 .. body[p].size |-> Byte(p, i)]

OfCall(f) == call.list = Some(<< f._tempPath >>)

\* C21: .size of a descriptor of the result, read at any time by the holder
\* of the result, never throws; it is the number of bytes the temp file holds
\* on disk at that moment (which, while the file exists, is the number of
\* bytes parseMultipart stored for the part), and it is 0 once the file no
\* longer exists.
C21_SizeIsLive ==
  (Resolved /\ call.op = "size") =>
    /\ ~call.threw
    /\ \A i \in 1 .. Len(Res.files) :
         LET f == Res.files[i] IN
         OfCall(f) =>
           IF disk[f._tempPath] = None
             THEN call.value = << 0 >>
             ELSE /\ call.value = << Len(disk[f._tempPath][1]) >>
                  /\ call.value = << Len(Chunk(f.part)) >>

\* .size of the descriptor of a non-empty file has just been read after the
\* onResponse hook removed the file, and it returned 0
C21_Witness ==
  /\ Resolved /\ phase = "cleaned" /\ call.op = "size"
  /\ call.value = << 0 >>
  /\ \E i \in 1 .. Len(Res.files) :
       OfCall(Res.files[i]) /\ body[Res.files[i].part].size > 0

\* C22: once the temp file of a descriptor has been unlinked (by
\* cleanupTempFiles or by the onResponse hook), toBuffer() rejects and the
\* stream of createReadStream() emits an error; neither returns content.
C22_ReadAfterDeleteErrors ==
  (Resolved /\ call.op \in {"toBuffer", "createReadStream"}) =>
    \A i \in 1 .. Len(Res.files) :
      (OfCall(Res.files[i]) /\ disk[Res.files[i]._tempPath] = None)
        => call.threw /\ call.value = << >>

\* createReadStream() of a descriptor has just failed after a manual
\* cleanupTempFiles() call removed its file
C22_Witness ==
  /\ Resolved /\ phase = "handler" /\ manual
  /\ call.op = "createReadStream" /\ call.threw
  /\ \E i \in 1 .. Len(Res.files) :
       OfCall(Res.files[i]) /\ disk[Res.files[i]._tempPath] = None

\* toBuffer() of a descriptor has just rejected after the onResponse hook
\* removed its file
C22_WitnessHook ==
  /\ Resolved /\ phase = "cleaned" /\ ~manual
  /\ call.op = "toBuffer" /\ call.threw
  /\ \E i \in 1 .. Len(Res.files) :
       OfCall(Res.files[i]) /\ disk[Res.files[i]._tempPath] = None

\* ------------------------------------------------------------------------
SeqSet(q) == { q[i] : i \in 1 .. Len(q) }
DescriptorPaths(res) == { res.files[i]._tempPath : i \in 1 .. Len(res.files) }

\* The tracked paths of a result are the paths of its descriptors, one each
Tracked(res) ==
  /\ SeqSet(res._tempFiles) = DescriptorPaths(res)
  /\ Len(res._tempFiles) = Len(res.files)
  /\ Cardinality(DescriptorPaths(res)) = Len(res.files)

\* C23: in every ParseResult parseMultipart produces (the value the promise
\* resolved with, and the value stored on the request), _tempFiles is exactly
\* the set of the _tempPath values of the descriptors in files: no tracked
\* path lacks a descriptor and no descriptor's path is untracked.
C23_TrackedAreDescriptors ==
  /\ Resolved => Tracked(Res)
  /\ kMultipart # None => Tracked(kMultipart[1])

\* A result of two files whose write streams finished in the other order
\* than the parts arrived: files and _tempFiles list the same two paths in
\* different orders
C23_Witness ==
  /\ Resolved /\ Len(Res.files) = 2
  /\ Res.files[1]._tempPath = Res._tempFiles[2]
  /\ Res.files[2]._tempPath = Res._tempFiles[1]

\* ------------------------------------------------------------------------
WriteFailed == \E i \in 1 .. Len(ws) : ws[i].state = "errored"
WriteFails  == ~WriteFailed /\ WriteFailed'
TokenizerFailed == bb.state = "errored"
TokenizerFails  == bb.state = "running" /\ bb'.state = "errored"

\* C24 as stated: once a write stream has emitted an I/O error the promise
\* is rejected with that error, and once the tokenizer has emitted a
\* malformed-input error the promise is rejected with that error.
C24_Claim ==
  /\ WriteFailed => RejectedWith(WriteIOError)
  /\ TokenizerFailed => Rejected /\ promise.error \in ErrorMessages

\* C24, amended: when a write stream emits an I/O error or the tokenizer
\* emits a malformed-input error while the promise is pending, the promise
\* rejects with that very error; if the promise was already rejected it
\* stays rejected with the earlier error; in both cases the promise is
\* rejected from then on and never resolves, with an empty result or any
\* other.
C24_ErrorsReject ==
  /\ []((WriteFailed \/ TokenizerFailed) => Rejected)
  /\ [][(WriteFails /\ promise.state = "pending")
          => (promise'.state = "rejected" /\ promise'.error = WriteIOError)]_vars
  /\ [][(TokenizerFails /\ promise.state = "pending")
          => (promise'.state = "rejected" /\ promise'.error \in ErrorMessages)]_vars
  /\ [][((WriteFails \/ TokenizerFails) /\ promise.state = "rejected")
          => promise' = promise]_vars

\* The write stream of the second file has failed while the first file was
\* written and the tokenizer still running, and the promise is rejected
\* with the I/O error
C24_Witness ==
  /\ Len(ws) = 2 /\ ws[2].state = "errored" /\ ws[1].state = "finished"
  /\ bb.state = "running" /\ RejectedWith(WriteIOError)

\* The tokenizer has failed on the body's end after a field was stored, and
\* the promise is rejected with the tokenizer's error
C24_WitnessTokenizer ==
  /\ TokenizerFailed /\ RejectedWith(UnexpectedEnd) /\ bb.fields > 0

\* ------------------------------------------------------------------------
\* The five error outcomes the contract names; MalformedMultipartBody is any
\* of the tokenizer's errors
ContractErrors == { InvalidMultipartContentType, FileSizeLimit, FilesLimit,
                    FieldsLimit } \cup ErrorMessages

\* C25: every call of parseMultipart ends in one of six outcomes: it
\* resolves with a ParseResult, or it rejects with InvalidContentType,
\* FileSizeLimitExceeded, FilesLimitExceeded, FieldsLimitExceeded or
\* MalformedMultipartBody; it rejects with no other error, and once no
\* tokenizer or write-stream event is still to come it is not pending.
C25_Claim ==
  /\ Rejected => promise.error \in ContractErrors
  /\ (promise.state # "none" /\ Quiescent) => promise.state # "pending"

\* ------------------------------------------------------------------------
\* C26: once the connection has closed before the body was complete,
\* parseMultipart is not pending (it has rejected), no temp-file write
\* stream is still open, and every temp file the request created is either
\* removed or in the list the cleanup hook reads.
C26_Claim ==
  bb.state = "aborted" =>
    /\ promise.state # "pending"
    /\ \A i \in 1 .. Len(ws) : ws[i].state # "open"
    /\ \A i \in 1 .. Len(tempFiles) :
         \/ disk[tempFiles[i]] = None
         \/ kTempFiles # None /\ Includes(kTempFiles[1], tempFiles[i])

\* ------------------------------------------------------------------------
\* The part objects of the parts the tokenizer of parts() has emitted
Emitted == [i \in 1 .. Len(gen.emitted) |-> PartObj(gen.emitted[i])]
\* The part objects of the whole body, in the order of the body
AllParts == [p \in 1 .. Len(body) |-> PartObj(p)]
IsPrefix(a, b) == Len(a) <= Len(b) /\ a = SubSeq(b, 1, Len(a))

\* C27: what the consumer of parts() has received is at every moment a
\* prefix of what the tokenizer has emitted (every part at most once, in
\* emission order, fields and files interleaved as in the body); when the
\* iteration completes the consumer has received every part the tokenizer
\* emitted, and these are all the parts of the body: F + N parts for a body
\* of F field parts and N file parts.
C27_YieldsAllInOrder ==
  /\ IsPrefix(gen.yielded, Emitted)
  /\ iter.state = "done" =>
       /\ gen.yielded = Emitted
       /\ gen.yielded = AllParts
       /\ Len(gen.yielded) = NFields + NFiles

\* The iteration has completed on a body of a field, a file and a field,
\* and the consumer holds these three parts in that order
C27_Witness ==
  /\ iter.state = "done" /\ Len(body) = 3
  /\ IsField(body[1]) /\ IsFile(body[2]) /\ IsField(body[3])
  /\ gen.yielded = << PartObj(1), PartObj(2), PartObj(3) >>

\* The file part the consumer of parts() holds
Held == gen.yielded[Len(gen.yielded)].part

\* C28: the bytes the consumer has read from the stream of the file part it
\* holds are at every moment the first bytes of that part, in order; once
\* the consumer has seen the end of the stream of a part whose size is
\* within limits.fileSize, it has read exactly the bytes of the part.  This
\* holds whether its first read came while the tokenizer was still producing
\* the part or after the part had ended.
C28_StreamBytesExact ==
  (Len(gen.yielded) > 0 /\ IsFile(body[Held])) =>
    /\ IsPrefix(gen.chunks.read, Content(Held))
    /\ (gen.chunks.seen = "end" /\ body[Held].size <= limits.fileSize)
         => gen.chunks.read = Content(Held)

\* The consumer began to read while the part was being produced, and has
\* read the whole part and seen the end of the stream
C28_Witness ==
  /\ Len(gen.yielded) > 0 /\ IsFile(body[Held])
  /\ body[Held].size <= limits.fileSize
  /\ gen.chunks.firstRead = "open" /\ gen.chunks.seen = "end"
  /\ gen.chunks.read = Content(Held)

\* The consumer began to read after the part had ended (a second file, fully
\* buffered while it held the first), and has read the whole part
C28_WitnessAfter ==
  /\ Len(gen.yielded) > 1 /\ IsFile(body[Held])
  /\ body[Held].size <= limits.fileSize
  /\ gen.chunks.firstRead = "ended" /\ gen.chunks.seen = "end"
  /\ gen.chunks.read = Content(Held)

\* The generator raises its error in this step
Raises == iter.state \in {"running", "yielded"} /\ iter'.state = "thrown"

\* C29: in parts(), after a limit violation or a tokenizer error has set
\* the error, nothing that is buffered is dropped (what the consumer
\* received followed by the queue is what the tokenizer emitted); the
\* generator raises the error only with an empty queue, when the consumer
\* has received every part that was emitted before the error was set; and
\* an iteration on which the error was set does not complete without
\* raising it.
C29_ErrorAfterBuffered ==
  /\ [](iter.state \in {"running", "yielded"} => gen.yielded \o gen.parts = Emitted)
  /\ [][Raises => /\ gen.parts = << >> /\ gen'.parts = << >>
                   /\ gen.error # NoError /\ iter'.error = gen.error
                   /\ Len(gen'.yielded) >= gen.errEmitted]_vars
  /\ [](iter.state = "done" => gen.error = NoError)

\* The fields limit was passed while two parts were in the queue; the
\* consumer has received both and the generator has then raised the error
C29_Witness ==
  /\ iter.state = "thrown" /\ iter.error = FieldsLimit
  /\ gen.errBuffered = 2 /\ gen.errEmitted = 2
  /\ Len(gen.yielded) = 2 /\ gen.parts = << >>

\* The tokenizer failed while a part was in the queue; the consumer has
\* received it and the generator has then raised the tokenizer's error
C29_WitnessTokenizer ==
  /\ iter.state = "thrown" /\ iter.error = MalformedBody
  /\ gen.errBuffered >= 1 /\ Len(gen.yielded) >= gen.errEmitted

\* C30, in the bounds of the model: the queue of parts() never holds a
\* whole body of MaxParts parts, and the stream of a part the consumer has
\* not read never holds a whole file of limits.fileSize bytes; the producer
\* stops before.
C30_Claim ==
  /\ Len(gen.parts) < MaxParts
  /\ \A p \in 1 .. Len(gen.streams) : Len(gen.streams[p].buffer) < limits.fileSize

\* ------------------------------------------------------------------------
\* C31: in parts(), a file part over limits.fileSize is never delivered as
\* a complete, error-free stream: the consumer never sees the end of the
\* stream of such a part (the stream is destroyed with FileSizeLimit), and
\* the iteration over a body with such a part does not complete.
C31_Claim ==
  /\ (Len(gen.yielded) > 0 /\ IsFile(body[Held])
        /\ body[Held].size > limits.fileSize) => gen.chunks.seen # "end"
  /\ iter.state = "done" =>
       \A p \in 1 .. Len(body) : IsFile(body[p]) => body[p].size <= limits.fileSize

\* ------------------------------------------------------------------------
\* C32: on a body with one file part of s bytes, for every s and every
\* limits.fileSize, once parseMultipart has settled and the iteration of
\* parts() on the same body has ended, parseMultipart has rejected with
\* FileSizeLimit if and only if parts() has raised FileSizeLimit.
C32_Claim ==
  ( /\ Len(body) = 1 /\ IsFile(body[1])
    /\ promise.state \in {"resolved", "rejected"}
    /\ iter.state \in {"done", "thrown"} ) =>
    (RejectedWith(FileSizeLimit)
       <=> (iter.state = "thrown" /\ iter.error = FileSizeLimit))

\* ------------------------------------------------------------------------
\* C33: when the request body ends (normally, with a tokenizer error or a
\* limit event) and the consumer keeps pulling and reads each file stream to
\* its end, an iteration of parts() that has started reaches its end or a
\* raised error: the generator does not wait on setImmediate for ever and
\* the consumer does not wait on a stream for ever.
C33_IterationEnds ==
  (iter.state \in {"running", "yielded"}) ~> (iter.state \in {"done", "thrown"})

\* An iteration has ended normally after the consumer read a file stream to
\* its end
C33_Witness ==
  /\ iter.state = "done" /\ Len(gen.yielded) >= 2
  /\ IsFile(body[Held]) /\ gen.chunks.seen = "end"

\* An iteration has ended with the tokenizer's error after the consumer saw
\* the error of the stream it was reading
C33_WitnessError ==
  /\ iter.state = "thrown" /\ iter.error = MalformedBody
  /\ Len(gen.yielded) >= 1 /\ gen.chunks.seen = "error"

\* ------------------------------------------------------------------------
\* C36: cleanupTempFiles() called with no argument on a request on which no
\* parseMultipart has completed (the list it falls back to is the request's,
\* still null) completes without raising, and it deletes nothing.
C36_Claim ==
  /\ []((call.op = "cleanupTempFiles" /\ ~Resolved /\ kTempFiles = None
          /\ call.list = None) => ~call.threw)
  /\ [][(call'.op = "cleanupTempFiles" /\ ~Resolved /\ kTempFiles = None
          /\ call'.list = None) => disk' = disk]_vars

\* ------------------------------------------------------------------------
\* The write streams of the call that have emitted 'finish'
Finished == { i \in 1 .. Len(ws) : ws[i].state = "finished" }
FileEvent   == Len(ws') = Len(ws) + 1
WriteFinish == Cardinality(Finished') = Cardinality(Finished) + 1

\* C37: in every state of a parseMultipart call, pendingFiles is not
\* negative and is the number of file parts started less the number of
\* temp-file writes that have finished; a step changes it only by adding 1
\* at a file event or by taking 1 at the 'finish' of a write.
C37_PendingCounts ==
  /\ [](pendingFiles >= 0 /\ pendingFiles = Len(ws) - Cardinality(Finished))
  /\ [][FileEvent => pendingFiles' = pendingFiles + 1]_vars
  /\ [][WriteFinish => pendingFiles' = pendingFiles - 1]_vars
  /\ [][pendingFiles' # pendingFiles => (FileEvent \/ WriteFinish)]_vars

\* Two files were started, the write of one has finished and that of the
\* other was destroyed at the limit: the counter stays at 1
C37_Witness ==
  /\ Len(ws) = 2 /\ pendingFiles = 1
  /\ \E i, j \in 1 .. 2 : ws[i].state = "finished" /\ ws[j].state = "destroyed"

\* C38: at every point of a parseMultipart call, every temp file that is on
\* disk because of this parse has its path in the list tempFiles (the path
\* is in the list from the step that creates the file, before any byte of
\* the part is written), and the list only grows.
C38_OnDiskIsTracked ==
  /\ [](\A p \in Paths : disk[p] # None => Includes(tempFiles, p))
  /\ [](\A i \in 1 .. Len(ws) : Includes(tempFiles, ws[i].path))
  /\ [][IsPrefix(tempFiles, tempFiles')]_vars

\* Two temp files are on disk, one written and one still empty, while the
\* promise is pending and nothing has been published on the request
C38_Witness ==
  /\ promise.state = "pending" /\ kTempFiles = None
  /\ Len(tempFiles) = 2
  /\ disk[tempFiles[1]] # None /\ Len(disk[tempFiles[1]][1]) > 0
  /\ disk[tempFiles[2]] = Some(<< >>)

\* C39: a run of cleanupTempFiles or of the onResponse hook leaves the
\* request's ParseResult as it was: fields, files with their descriptors,
\* the tracked paths (in the result and on the request) and the promise's
\* value are unchanged, and request.files() returns after the cleanup what
\* it returned before.
C39_CleanupKeepsResult ==
  [][(call'.op \in {"cleanupTempFiles", "onResponse"}) =>
       /\ kMultipart' = kMultipart
       /\ kTempFiles' = kTempFiles
       /\ promise' = promise
       /\ Files(kMultipart') = Files(kMultipart)
       /\ File(kMultipart') = File(kMultipart)]_vars

\* request.files() has just returned the two descriptors of the result
\* after a cleanupTempFiles() call of the handler removed their files
C39_Witness ==
  /\ phase = "handler" /\ manual /\ Resolved /\ Len(Res.files) = 2
  /\ \A p \in ResultPaths : disk[p] = None
  /\ call.op = "files" /\ ~call.threw /\ call.value = Res.files
  /\ kTempFiles = Some(Res._tempFiles)

\* ------------------------------------------------ two requests: helpers
Other(r)        == 3 - r
ConcCounter(r)  == conc.pendingFiles[CounterOf(r)]
ConcResolved(r) == conc.reqs[r].promise.state = "resolved"
ConcRes(r)      == conc.reqs[r].promise.result[1]
ConcFileParts(r) == { ConcPart(r, i) : i \in { j \in 1 .. Len(conc.reqs[r].body) :
                                               conc.reqs[r].body[j] = "file" } }
ConcNFields(r)  == Cardinality({ j \in 1 .. Len(conc.reqs[r].body) :
                                 conc.reqs[r].body[j] = "field" })
ConcWriting(r)  == { i \in 1 .. Len(conc.reqs[r].ws) : conc.reqs[r].ws[i].state = "ending" }

\* The result of request r holds every file part of its own body once, only
\* its own field values, and exactly the paths it allocated itself
ConcOwnResult(r) ==
  LET res  == ConcRes(r)
      vals == ValuesIn(Get(res.fields, "name"))
  IN
  /\ { res.files[i].part : i \in 1 .. Len(res.files) } = ConcFileParts(r)
  /\ Len(res.files) = Cardinality(ConcFileParts(r))
  /\ Len(vals) = ConcNFields(r)
  /\ \A i \in 1 .. Len(vals) : vals[i] = ConcValue(r)
  /\ res._tempFiles = [i \in 1 .. Len(conc.reqs[r].ws) |-> conc.reqs[r].ws[i].path]

\* Every write stream opened so far, by request and position
ConcAllocs == { a \in Requests \X (1 .. MaxConcParts) : a[2] <= Len(conc.reqs[a[1]].ws) }
AllocOf(a) == conc.reqs[a[1]].ws[a[2]]

\* C34: an event of one request changes nothing of the other request (its
\* pending-file counter, its files and fields, its tracked paths, its
\* promise); each counter counts the request's own unflushed files; and a
\* resolved request's result is made of its own parts only.
C34_RequestsIndependent ==
  /\ [](\A r \in Requests :
          /\ conc.reqs[r].state # "none" => ConcCounter(r) = Cardinality(ConcWriting(r))
          /\ ConcResolved(r) => ConcOwnResult(r))
  /\ [][\A r \in Requests :
          conc.reqs[r]' # conc.reqs[r]
            => /\ conc.reqs[Other(r)]' = conc.reqs[Other(r)]
               /\ ConcCounter(Other(r))' = ConcCounter(Other(r))]_vars

\* both requests have read their whole body and each still waits for a write
\* stream of its own, neither settled
C34_Witness ==
  \A r \in Requests :
    /\ conc.reqs[r].state = "finished" /\ ~ConcResolved(r)
    /\ ConcCounter(r) = 1 /\ Len(conc.reqs[r].ws) = Len(conc.reqs[r].body)

====
